---- MODULE Spec2Model ----
(***************************************************************************)
(* GenAI Security Maturity Explorer (src/app.py): the constant maturity    *)
(* tables, the derived-metrics functions (create_heatmap,                  *)
(* create_gap_analysis_chart, create_radar_chart, get_level_description)   *)
(* and the Dash callbacks that publish their results.                      *)
(* The pre-deployment script (src/check_compatibility.py) follows: its six *)
(* checks and main.                                                        *)
(*                                                                         *)
(* Scores are Python floats that are multiples of 0.1.  They are kept here *)
(* in fixed point, 120 units per maturity level, so that every sum, every  *)
(* mean of three (np.mean(data[cat][1:])) and every mean of four (the      *)
(* column means) is an exact integer.                                      *)
(***************************************************************************)
EXTENDS Integers, Sequences, FiniteSets, TLC

\* A float literal written in tenths: Score(25) is 2.5
Score(tenths) == 12 * tenths

----------------------------------------------------------------------------
(* DATA STRUCTURE *)

THREAT_CATEGORIES ==
    << "Prompt Injection", "Autonomy Harms", "Political Integrity", "Privacy" >>

DIMENSIONS ==
    << "Threat Maturity", "Technical Controls",
       "Governance Enforcement", "Stakeholder Protections" >>

\* Initial contents of the dict MATURITY_DATA_2025
BASELINE_2025 ==
    ( "Prompt Injection"    :> << Score(40), Score(25), Score(20), Score(5) >> ) @@
    ( "Autonomy Harms"      :> << Score(40), Score(20), Score(20), Score(5) >> ) @@
    ( "Political Integrity" :> << Score(40), Score(10), Score(5),  Score(5) >> ) @@
    ( "Privacy"             :> << Score(40), Score(20), Score(20), Score(20) >> )

\* Initial contents of the dict MATURITY_DATA_2026
PROJECTION_2026 ==
    ( "Prompt Injection"    :> << Score(40), Score(30), Score(25), Score(10) >> ) @@
    ( "Autonomy Harms"      :> << Score(40), Score(25), Score(25), Score(10) >> ) @@
    ( "Political Integrity" :> << Score(40), Score(20), Score(15), Score(10) >> ) @@
    ( "Privacy"             :> << Score(40), Score(25), Score(25), Score(25) >> )

\* MATURITY_DATA_2027 with the Privacy row left out and a score missing
PROJECTION_2027_incomplete ==
    ( "Prompt Injection"    :> << Score(40), Score(35), Score(30), Score(20) >> ) @@
    ( "Autonomy Harms"      :> << Score(40), Score(30), Score(30), Score(15) >> ) @@
    ( "Political Integrity" :> << Score(40), Score(25), Score(25) >> )

\* Initial contents of the dict MATURITY_DATA_2027
PROJECTION_2027 ==
    ( "Prompt Injection"    :> << Score(40), Score(35), Score(30), Score(20) >> ) @@
    ( "Autonomy Harms"      :> << Score(40), Score(30), Score(30), Score(15) >> ) @@
    ( "Political Integrity" :> << Score(40), Score(25), Score(25), Score(15) >> ) @@
    ( "Privacy"             :> << Score(40), Score(30), Score(30), Score(30) >> )

\* Evidence records that carry the levels of the 2026 projection
CELL_LEVELS_of_2026 == PROJECTION_2026

\* The "level" entries of CELL_DETAILS, per category in the order of DIMENSIONS
CELL_LEVELS ==
    ( "Prompt Injection"    :> << Score(40), Score(25), Score(20), Score(5) >> ) @@
    ( "Autonomy Harms"      :> << Score(40), Score(20), Score(20), Score(5) >> ) @@
    ( "Political Integrity" :> << Score(40), Score(10), Score(5),  Score(5) >> ) @@
    ( "Privacy"             :> << Score(40), Score(20), Score(20), Score(20) >> )

\* Initial contents of the dict CELL_DETAILS.  A text is kept as the path
\* of the entry that holds it; nothing computes on the characters.
EVIDENCE_RECORDS ==
    [ c \in DOMAIN CELL_LEVELS |->
        [ description  |-> << c, "description" >>,
          incidents    |-> << c, "incidents" >>,
          thesis_quote |-> << c, "thesis_quote" >>,
          dimensions   |->
            [ d \in { DIMENSIONS[i] : i \in 1..Len(DIMENSIONS) } |->
                [ level       |-> CELL_LEVELS[c][CHOOSE i \in 1..Len(DIMENSIONS) :
                                                    DIMENSIONS[i] = d],
                  description |-> << c, d, "description" >>,
                  evidence    |-> << c, d, "evidence" >>,
                  references  |-> << c, d, "references" >> ] ] ] ]

\* Values of the year-selector dropdown
SupportedYears == { "2025", "2026", "2027" }

\* Years a caller may pass: the supported ones and one outside the set
YearInputs == SupportedYears \cup { "2099" }

\* governance-slider: min and max
SLIDER_MIN == 0
SLIDER_MAX == 4
Adjustments == SLIDER_MIN .. SLIDER_MAX

\* The figure of a dcc.Graph of the layout before its callback has run
NoFigure == [ figure |-> "none" ]

\* clickData of main-heatmap while no cell has been clicked (None)
NoClick == [ points |-> << >> ]

\* The children of modal-title and modal-body in the layout, and the ""
\* that toggle_modal returns for them
NoChildren == [ children |-> "" ]

\* Server threads that run callbacks at the same time
Threads == { 1, 2 }

\* A thread that runs no callback
Idle == [ pc |-> "idle" ]

VARIABLES
    MATURITY_DATA_2025,  \* module-level dict, category -> list of 4 scores
    MATURITY_DATA_2026,
    MATURITY_DATA_2027,
    year,                \* arguments of the latest update_charts call
    governance_adj,
    dark_mode,
    charts_error,        \* exception raised by that call, "none" if it returned
    main_heatmap,        \* Output("main-heatmap", "figure")
    gap_chart,           \* Output("gap-chart", "figure")
    quick_stats,         \* Output("quick-stats", "children")
    radar_category,      \* arguments of the latest update_radar call
    radar_year,
    radar_dark_mode,
    radar_chart,         \* Output("radar-chart", "figure")
    radar_error,         \* exception raised by that call, "none" if it returned
    CELL_DETAILS,        \* module-level dict, category -> evidence record
    modal_triggered,     \* ctx.triggered_id of the latest toggle_modal call
    modal_click_data,    \* its click_data argument
    modal_is_open,       \* its is_open argument, State("detail-modal", "is_open")
    modal_error,         \* exception raised by that call, "none" if it returned
    detail_modal_is_open, \* Output("detail-modal", "is_open")
    modal_title,         \* Output("modal-title", "children")
    modal_body,          \* Output("modal-body", "children")
    level_in,            \* argument of the latest get_level_description call
    level_out,           \* and its result
    gap_in,              \* a gap handed to the severity colour expression
    color_out,           \* and the colour it selects
    calls,               \* the callbacks in progress, one per server thread
    env,                 \* what check_compatibility.py finds: interpreter, files, pip
    main_pc,             \* position of check_compatibility.main
    called,              \* names of the checks main has called, in order
    results,             \* main: results, a list of (name, result)
    errors,              \* names printed by "Error in {name}"
    passed,              \* main: passed
    total,               \* main: total
    main_return          \* << >> until main returns, then << exit code >>

tables == << MATURITY_DATA_2025, MATURITY_DATA_2026, MATURITY_DATA_2027 >>
chartsVars == << year, governance_adj, dark_mode, charts_error,
                 main_heatmap, gap_chart, quick_stats >>
radarVars == << radar_category, radar_year, radar_dark_mode, radar_chart,
                radar_error >>
levelVars == << level_in, level_out >>
modalVars == << modal_triggered, modal_click_data, modal_is_open, modal_error,
                detail_modal_is_open, modal_title, modal_body >>
colorVars == << gap_in, color_out >>
scriptVars == << env, main_pc, called, results, errors, passed, total,
                 main_return >>
\* What the callbacks of one request at a time leave alone besides their own
\* outputs
otherVars == << CELL_DETAILS, colorVars, scriptVars, calls >>
vars == << tables, chartsVars, radarVars, levelVars, modalVars, otherVars >>

----------------------------------------------------------------------------
(* HELPER FUNCTIONS *)

RECURSIVE SumSeq(_)
SumSeq(s) == IF s = << >> THEN 0 ELSE Head(s) + SumSeq(Tail(s))

\* np.mean of a non-empty list
Mean(s) == SumSeq(s) \div Len(s)

\* Python's min(a, b)
Min(a, b) == IF a < b THEN a ELSE b

\* f"{v:.1f}": the number of tenths nearest to v, a tie going to the even
\* one.  Every score of the tables and of the adjusted matrix is a whole
\* number of tenths.
format_1f(v) ==
    LET q == v \div Score(1)
        r == v % Score(1)
    IN  IF 2 * r < Score(1) THEN q
        ELSE IF 2 * r > Score(1) THEN q + 1
        ELSE IF q % 2 = 0 THEN q ELSE q + 1

\* dict.get(key, default)
Get(dict, key, default) == IF key \in DOMAIN dict THEN dict[key] ELSE default

\* The empty dict {}
EmptyDict == << >>

\* get_level_description with every cut point in the lower band (<= for <)
get_level_description_inclusive(level) ==
    IF level <= Score(5) THEN "Non-existent"
    ELSE IF level <= Score(15) THEN "Initial/Ad-hoc"
    ELSE IF level <= Score(25) THEN "Developing"
    ELSE IF level <= Score(35) THEN "Defined"
    ELSE "Managed/Mature"

get_level_description(level) ==
    IF level < Score(5) THEN "Non-existent"
    ELSE IF level < Score(15) THEN "Initial/Ad-hoc"
    ELSE IF level < Score(25) THEN "Developing"
    ELSE IF level < Score(35) THEN "Defined"
    ELSE "Managed/Mature"

\* get_maturity_data falling back to the latest projection
get_maturity_data_latest(yr) ==
    IF yr = "2025" THEN MATURITY_DATA_2025
    ELSE IF yr = "2026" THEN MATURITY_DATA_2026
    ELSE IF yr = "2027" THEN MATURITY_DATA_2027
    ELSE MATURITY_DATA_2027

get_maturity_data(yr) ==
    IF yr = "2025" THEN MATURITY_DATA_2025
    ELSE IF yr = "2026" THEN MATURITY_DATA_2026
    ELSE IF yr = "2027" THEN MATURITY_DATA_2027
    ELSE MATURITY_DATA_2025

\* data[category] for every category of THREAT_CATEGORIES: KeyError when a
\* category is not a key of the dict
LookupError(data) ==
    IF \A i \in 1..Len(THREAT_CATEGORIES) : THREAT_CATEGORIES[i] \in DOMAIN data
    THEN "none" ELSE "KeyError"

\* adjust_row with the guard dropped and the slider counted from one
adjust_row_from_one(row, governance_adjustment) ==
    [ row EXCEPT
        ![3] = Min(Score(40), row[3] + (governance_adjustment + 1) * Score(5)),
        ![4] = Min(Score(40), row[4] + (governance_adjustment + 1) * Score(3)) ]

\* adjust_row without the ceiling min(4.0, ...)
adjust_row_unclamped(row, governance_adjustment) ==
    IF governance_adjustment > 0
    THEN [ row EXCEPT
             ![3] = row[3] + governance_adjustment * Score(5),
             ![4] = row[4] + governance_adjustment * Score(3) ]
    ELSE row

\* adjust_row with the adjustment subtracted
adjust_row_subtract(row, governance_adjustment) ==
    IF governance_adjustment > 0
    THEN [ row EXCEPT
             ![3] = Min(Score(40), row[3] - governance_adjustment * Score(5)),
             ![4] = Min(Score(40), row[4] - governance_adjustment * Score(3)) ]
    ELSE row

\* adjust_row with the two step sizes exchanged
adjust_row_swapped(row, governance_adjustment) ==
    IF governance_adjustment > 0
    THEN [ row EXCEPT
             ![3] = Min(Score(40), row[3] + governance_adjustment * Score(3)),
             ![4] = Min(Score(40), row[4] + governance_adjustment * Score(5)) ]
    ELSE row

\* adjust_row with the column indices one too low
adjust_row_shifted(row, governance_adjustment) ==
    IF governance_adjustment > 0
    THEN [ row EXCEPT
             ![2] = Min(Score(40), row[2] + governance_adjustment * Score(5)),
             ![3] = Min(Score(40), row[3] + governance_adjustment * Score(3)) ]
    ELSE row

\* create_heatmap, the body of the loop: the copy of the row after the
\* governance adjustment
adjust_row(row, governance_adjustment) ==
    IF governance_adjustment > 0
    THEN [ row EXCEPT
             ![3] = Min(Score(40), row[3] + governance_adjustment * Score(5)),
             ![4] = Min(Score(40), row[4] + governance_adjustment * Score(3)) ]
    ELSE row

\* stored_rows without the copy (row_values = data[category]): the
\* adjustment is written to the stored lists
stored_rows_aliased(data, governance_adjustment) ==
    [ c \in DOMAIN data |->
        IF governance_adjustment > 0
        THEN [ data[c] EXCEPT
                 ![3] = Min(Score(40), data[c][3] + governance_adjustment * Score(5)),
                 ![4] = Min(Score(40), data[c][4] + governance_adjustment * Score(3)) ]
        ELSE data[c] ]

\* create_heatmap, `row_values = data[category].copy()`: the contents of the
\* dict after the loop.  The adjustment is written to the copy, so every
\* stored list keeps its scores.
stored_rows(data, governance_adjustment) ==
    [ c \in DOMAIN data |-> data[c] ]

\* create_heatmap: z_values, as a function of the category
z_values(data, governance_adjustment) ==
    [ c \in DOMAIN data |-> adjust_row(data[c], governance_adjustment) ]

\* create_heatmap with the hover label and the cell text read from the
\* stored row instead of row_values
create_heatmap_base_labels(yr, governance_adjustment, dm) ==
    LET data == get_maturity_data(yr)
        z    == z_values(data, governance_adjustment)
    IN  [ z          |-> z,
          level_desc |-> [ c \in DOMAIN z |->
                             [ i \in 1..Len(DIMENSIONS) |->
                                 get_level_description(data[c][i]) ] ],
          text       |-> [ c \in DOMAIN z |->
                             [ i \in 1..Len(DIMENSIONS) |->
                                 format_1f(data[c][i]) ] ],
          year_label |-> IF yr = "2025" THEN << yr, "Baseline" >>
                                        ELSE << yr, "Projection" >>,
          bg_color   |-> IF dm THEN "#1a1a2e" ELSE "#ffffff" ]

create_heatmap(yr, governance_adjustment, dm) ==
    LET data == get_maturity_data(yr)
        z    == z_values(data, governance_adjustment)
    IN  [ z          |-> z,
          level_desc |-> [ c \in DOMAIN z |->
                             [ i \in 1..Len(DIMENSIONS) |->
                                 get_level_description(z[c][i]) ] ],
          text       |-> [ c \in DOMAIN z |->
                             [ i \in 1..Len(DIMENSIONS) |->
                                 format_1f(z[c][i]) ] ],
          year_label |-> IF yr = "2025" THEN << yr, "Baseline" >>
                                        ELSE << yr, "Projection" >>,
          bg_color   |-> IF dm THEN "#1a1a2e" ELSE "#ffffff" ]

\* row_gap with the mean taken over the whole row (data[cat][0:])
row_gap_whole_row(row) == row[1] - Mean(SubSeq(row, 1, Len(row)))

\* create_gap_analysis_chart: gap of one row
row_gap(row) == row[1] - Mean(SubSeq(row, 2, Len(row)))

\* create_gap_analysis_chart: the list gaps, as a function of the category
gap_values(data) == [ c \in DOMAIN data |-> row_gap(data[c]) ]

\* severity_color with inclusive thresholds (>= for >)
severity_color_inclusive(g) ==
    IF g >= Score(25) THEN "#d73027"
    ELSE IF g >= Score(20) THEN "#fc8d59"
    ELSE IF g >= Score(15) THEN "#fee08b"
    ELSE "#d9ef8b"

\* create_gap_analysis_chart, "Color based on gap severity": one element of
\* the list colors
severity_color(g) ==
    IF g > Score(25) THEN "#d73027"
    ELSE IF g > Score(20) THEN "#fc8d59"
    ELSE IF g > Score(15) THEN "#fee08b"
    ELSE "#d9ef8b"

create_gap_analysis_chart(yr, dm) ==
    LET gaps == gap_values(get_maturity_data(yr))
    IN  [ gaps     |-> gaps,
          colors   |-> [ c \in DOMAIN gaps |-> severity_color(gaps[c]) ],
          bg_color |-> IF dm THEN "#1a1a2e" ELSE "#ffffff" ]

\* The list [data[cat][i] for cat in THREAT_CATEGORIES]
Column(data, i) ==
    [ k \in 1..Len(THREAT_CATEGORIES) |-> data[THREAT_CATEGORIES[k]][i] ]

\* statistics with the overall gap taken against the governance column
statistics_gap_to_governance(data) ==
    LET avg_threat == Mean(Column(data, 1))
        avg_tech   == Mean(Column(data, 2))
        avg_gov    == Mean(Column(data, 3))
        avg_stake  == Mean(Column(data, 4))
    IN  [ avg_threat  |-> avg_threat,
          avg_tech    |-> avg_tech,
          avg_gov     |-> avg_gov,
          avg_stake   |-> avg_stake,
          overall_gap |-> avg_threat - avg_gov ]

\* update_charts, "Calculate statistics"
statistics(data) ==
    LET avg_threat == Mean(Column(data, 1))
        avg_tech   == Mean(Column(data, 2))
        avg_gov    == Mean(Column(data, 3))
        avg_stake  == Mean(Column(data, 4))
    IN  [ avg_threat  |-> avg_threat,
          avg_tech    |-> avg_tech,
          avg_gov     |-> avg_gov,
          avg_stake   |-> avg_stake,
          overall_gap |-> avg_threat - avg_stake ]

\* create_radar_chart that plots the first category for an unknown one
create_radar_chart_default_category(category, yr, dm) ==
    LET data == get_maturity_data(yr)
        shown == IF category \in DOMAIN data THEN category
                 ELSE THREAT_CATEGORIES[1]
    IN  [ r        |-> data[shown] \o << data[shown][1] >>,
          theta    |-> DIMENSIONS \o << DIMENSIONS[1] >>,
          name     |-> category,
          bg_color |-> IF dm THEN "#1a1a2e" ELSE "#ffffff" ]

\* create_radar_chart that closes the polygon with the last value
create_radar_chart_last_value(category, yr, dm) ==
    LET data == get_maturity_data(yr)
    IN  IF category \notin DOMAIN data
        THEN [ r |-> << >>, theta |-> << >>, name |-> "", bg_color |-> "" ]
        ELSE [ r        |-> data[category] \o << data[category][Len(data[category])] >>,
               theta    |-> DIMENSIONS \o << DIMENSIONS[1] >>,
               name     |-> category,
               bg_color |-> IF dm THEN "#1a1a2e" ELSE "#ffffff" ]

create_radar_chart(category, yr, dm) ==
    LET data == get_maturity_data(yr)
    IN  IF category \notin DOMAIN data
        THEN [ r |-> << >>, theta |-> << >>, name |-> "", bg_color |-> "" ]
        ELSE [ r        |-> data[category] \o << data[category][1] >>,
               theta    |-> DIMENSIONS \o << DIMENSIONS[1] >>,
               name     |-> category,
               bg_color |-> IF dm THEN "#1a1a2e" ELSE "#ffffff" ]

create_dimension_card(dimension, data) ==
    IF DOMAIN data = {}
    THEN [ dimension |-> dimension, empty |-> TRUE ]
    ELSE LET level == Get(data, "level", 0)
         IN  [ dimension   |-> dimension,
               empty       |-> FALSE,
               badge       |-> format_1f(level),
               color       |-> IF level < Score(10) THEN "danger"
                               ELSE IF level < Score(20) THEN "warning"
                               ELSE IF level < Score(30) THEN "info"
                               ELSE "success",
               description |-> Get(data, "description", ""),
               evidence    |-> Get(data, "evidence", << >>),
               references  |-> Get(data, "references", << >>) ]

\* toggle_modal: return False, "", ""
ModalClosed ==
    [ is_open |-> FALSE, title |-> NoChildren, body |-> NoChildren ]

\* toggle_modal_result without the check of the close button
toggle_modal_result_no_close(triggered, click_data, close_clicks, is_open) ==
    IF click_data = NoClick THEN ModalClosed
    ELSE LET point    == click_data.points[1]
             category == point.y
         IN  IF category \notin DOMAIN CELL_DETAILS THEN ModalClosed
             ELSE LET details == CELL_DETAILS[category]
                  IN  [ is_open |-> TRUE,
                        title   |-> [ icon |-> "fas fa-shield-virus me-2",
                                      span |-> category ],
                        body    |->
                          [ description  |-> details.description,
                            thesis_quote |-> details.thesis_quote,
                            cards        |->
                              [ i \in 1..Len(DIMENSIONS) |->
                                  create_dimension_card(DIMENSIONS[i],
                                      Get(details.dimensions, DIMENSIONS[i],
                                          EmptyDict)) ],
                            incidents    |-> details.incidents ] ]

\* toggle_modal_result that shows the levels of the clicked heatmap, the
\* scores of the selected year with the governance adjustment, in the
\* dimension cards
toggle_modal_result_displayed_levels(triggered, click_data, close_clicks, is_open) ==
    LET result == toggle_modal_result_no_close(triggered, click_data,
                                               close_clicks, is_open)
    IN  IF triggered = "close-modal" \/ ~result.is_open
            \/ LookupError(get_maturity_data(year)) # "none"
        THEN IF triggered = "close-modal" THEN ModalClosed ELSE result
        ELSE LET category == click_data.points[1].y
                 shown    == z_values(get_maturity_data(year),
                                      governance_adj)[category]
                 details  == CELL_DETAILS[category]
             IN  [ result EXCEPT !.body.cards =
                     [ i \in 1..Len(DIMENSIONS) |->
                         create_dimension_card(DIMENSIONS[i],
                             [ details.dimensions[DIMENSIONS[i]]
                                 EXCEPT !.level = shown[i] ]) ] ]

\* toggle_modal_result that flips the modal on a click: an open modal is
\* closed by the next click on the heatmap
toggle_modal_result_flip(triggered, click_data, close_clicks, is_open) ==
    IF triggered = "close-modal" THEN ModalClosed
    ELSE IF click_data = NoClick THEN ModalClosed
    ELSE IF is_open THEN ModalClosed
    ELSE toggle_modal_result_no_close(triggered, click_data, close_clicks,
                                      is_open)

\* toggle_modal: the three returned values
toggle_modal_result(triggered, click_data, close_clicks, is_open) ==
    IF triggered = "close-modal" THEN ModalClosed
    ELSE IF click_data = NoClick THEN ModalClosed
    ELSE LET point    == click_data.points[1]
             category == point.y
         IN  IF category \notin DOMAIN CELL_DETAILS THEN ModalClosed
             ELSE LET details == CELL_DETAILS[category]
                  IN  [ is_open |-> TRUE,
                        title   |-> [ icon |-> "fas fa-shield-virus me-2",
                                      span |-> category ],
                        body    |->
                          [ description  |-> details.description,
                            thesis_quote |-> details.thesis_quote,
                            cards        |->
                              [ i \in 1..Len(DIMENSIONS) |->
                                  create_dimension_card(DIMENSIONS[i],
                                      Get(details.dimensions, DIMENSIONS[i],
                                          EmptyDict)) ],
                            incidents    |-> details.incidents ] ]

----------------------------------------------------------------------------
(* check_compatibility.py: the six checks.  Text is a string; Len, SubSeq  *)
(* and \o act on its characters.                                           *)

\* str.startswith
startswith(s, prefix) ==
    Len(s) >= Len(prefix) /\ SubSeq(s, 1, Len(prefix)) = prefix

\* needle in s
Contains(s, needle) ==
    \E i \in 1 .. (Len(s) - Len(needle) + 1) :
        SubSeq(s, i, i + Len(needle) - 1) = needle

Whitespace == { " ", "\n", "\t" }

RECURSIVE lstrip(_)
lstrip(s) ==
    IF Len(s) > 0 /\ SubSeq(s, 1, 1) \in Whitespace
    THEN lstrip(SubSeq(s, 2, Len(s)))
    ELSE s

RECURSIVE rstrip(_)
rstrip(s) ==
    IF Len(s) > 0 /\ SubSeq(s, Len(s), Len(s)) \in Whitespace
    THEN rstrip(SubSeq(s, 1, Len(s) - 1))
    ELSE s

\* str.strip
strip(s) == rstrip(lstrip(s))

DecimalDigits == << "0", "1", "2", "3", "4", "5", "6", "7", "8", "9" >>

\* f"{n}" of a natural number
RECURSIVE str(_)
str(n) ==
    IF n < 10 THEN DecimalDigits[n + 1]
    ELSE str(n \div 10) \o DecimalDigits[(n % 10) + 1]

\* check_python_version: current_str
current_str(current) ==
    str(current.major) \o "." \o str(current.minor) \o "." \o str(current.micro)

\* A check is modelled by what it does: "True" or "False" for the value it
\* returns, "Exception" when it raises.

\* check_python_version: the value it returns, or the exception of read_text
check_python_version(e) ==
    IF ".python-version" \notin e.files THEN "False"
    ELSE IF ".python-version" \in e.unreadable THEN "Exception"
    ELSE LET target == strip(e.python_version)
         IN  IF startswith(target, "3.11") THEN "True" ELSE "False"

\* The exceptions of the pip subprocess and of json.loads are caught inside
check_package_compatibility(e) ==
    IF e.pip_list = "ok" THEN "True" ELSE "False"

\* check_requirements_file: [line.strip() for line in f
\*                           if line.strip() and not line.startswith("#")]
RECURSIVE requirement_lines(_)
requirement_lines(f) ==
    IF f = << >> THEN << >>
    ELSE IF Len(strip(Head(f))) > 0 /\ ~startswith(Head(f), "#")
         THEN << strip(Head(f)) >> \o requirement_lines(Tail(f))
         ELSE requirement_lines(Tail(f))

check_requirements_file(e) ==
    IF "requirements.txt" \notin e.files THEN "False"
    ELSE IF "requirements.txt" \in e.unreadable THEN "Exception"
    ELSE LET lines == requirement_lines(e.requirements)
             python_version == str(e.version_info.major) \o "." \o
                               str(e.version_info.minor)
             incompatible ==
               { i \in 1..Len(lines) :
                   \/ /\ Contains(lines[i], "pandas==2.1.4")
                      /\ python_version \in { "3.13", "3.14" }
                   \/ /\ Contains(lines[i], "numpy==1.26.2")
                      /\ python_version \in { "3.13", "3.14" } }
         IN  IF incompatible # {} THEN "False" ELSE "True"

\* test_imports catches ImportError and nothing else
test_imports(e) ==
    IF e.imports = "ok" THEN "True"
    ELSE IF e.imports = "ImportError" THEN "False"
    ELSE "Exception"

required_files ==
    { "app.py", "requirements.txt", "Procfile", "render.yaml", "runtime.txt",
      ".python-version" }

check_deployment_files(e) ==
    IF required_files \subseteq e.files THEN "True" ELSE "False"

\* pip check: its return code, or the subprocess cannot be started; the
\* exception is caught inside
analyze_dependency_tree(e) ==
    IF e.pip_check = "returncode 0" THEN "True" ELSE "False"

\* main: checks, the names in order
checks ==
    << "Python Version", "Requirements File", "Package Compatibility",
       "Import Tests", "Deployment Files", "Dependency Tree" >>

\* main: check_func() of the check called name
check_func(name, e) ==
    CASE name = "Python Version"        -> check_python_version(e)
      [] name = "Requirements File"     -> check_requirements_file(e)
      [] name = "Package Compatibility" -> check_package_compatibility(e)
      [] name = "Import Tests"          -> test_imports(e)
      [] name = "Deployment Files"      -> check_deployment_files(e)
      [] name = "Dependency Tree"       -> analyze_dependency_tree(e)

\* The body of the for loop without its try/except: the exception of a
\* check leaves main
guarded_call_unguarded(name, outcome) ==
    IF outcome = "Exception"
    THEN [ results |-> << >>, errors |-> << >>, pc |-> "raised" ]
    ELSE [ results |-> << << name, outcome = "True" >> >>,
           errors  |-> << >>,
           pc      |-> "loop" ]

\* The body of the for loop of main: what it appends to results, what it
\* prints as an error, and where main goes on
guarded_call(name, outcome) ==
    IF outcome = "Exception"
    THEN [ results |-> << << name, FALSE >> >>,
           errors  |-> << name >>,
           pc      |-> "loop" ]
    ELSE [ results |-> << << name, outcome = "True" >> >>,
           errors  |-> << >>,
           pc      |-> "loop" ]

\* sum(1 for _, result in results if result)
count_passed(rs) == Cardinality({ i \in 1..Len(rs) : rs[i][2] })

\* An exit status that accepts one passed check
exit_status_any_passed(p, t) == IF p > 0 THEN 0 ELSE 1

\* main: return 0 if passed == total, else 1
exit_status(p, t) == IF p = t THEN 0 ELSE 1

\* Interpreters, files and pip behaviours the script is run against
Environments ==
    [ version_info   : { [ major |-> 3, minor |-> 11, micro |-> 9 ],
                         [ major |-> 3, minor |-> 12, micro |-> 1 ],
                         [ major |-> 3, minor |-> 13, micro |-> 0 ] },
      files          : { required_files,
                         required_files \ { ".python-version" },
                         required_files \ { "requirements.txt" },
                         required_files \ { "Procfile" } },
      python_version : { "3.11.9\n", "3.11", "3.12.1\n", " 3.13.0\n" },
      requirements   : { << "# pins\n", "pandas==2.1.4\n", "\n",
                            "numpy==1.26.2  # numeric\n" >>,
                         << "dash==2.14.2\n" >> },
      unreadable     : { {}, { ".python-version" }, { "requirements.txt" } },
      pip_list       : { "ok", "error" },
      imports        : { "ok", "ImportError", "Exception" },
      pip_check      : { "returncode 0", "returncode 1", "Exception" } ]

\* The deployment the repository describes
DeployedEnvironment ==
    [ version_info   |-> [ major |-> 3, minor |-> 11, micro |-> 9 ],
      files          |-> required_files,
      python_version |-> "3.11.9\n",
      requirements   |-> << "dash==2.14.2\n" >>,
      unreadable     |-> {},
      pip_list       |-> "ok",
      imports        |-> "ok",
      pip_check      |-> "returncode 0" ]

\* main before its for loop
MainStarts ==
    /\ called = << >>
    /\ results = << >>
    /\ errors = << >>
    /\ passed = 0
    /\ total = 0
    /\ main_return = << >>

\* The script is not run
NotRun ==
    /\ env = DeployedEnvironment
    /\ main_pc = "idle"
    /\ MainStarts

----------------------------------------------------------------------------
(* CALLBACKS *)

\* The module-level dicts after create_heatmap(yr, adj, ...): the dict that
\* get_maturity_data(yr) returns holds stored_rows, the others are not
\* touched
heatmap_tables(yr, adj) ==
    /\ MATURITY_DATA_2025' =
         IF yr \notin { "2026", "2027" }
         THEN stored_rows(MATURITY_DATA_2025, adj) ELSE MATURITY_DATA_2025
    /\ MATURITY_DATA_2026' =
         IF yr = "2026"
         THEN stored_rows(MATURITY_DATA_2026, adj) ELSE MATURITY_DATA_2026
    /\ MATURITY_DATA_2027' =
         IF yr = "2027"
         THEN stored_rows(MATURITY_DATA_2027, adj) ELSE MATURITY_DATA_2027

\* The adjusted table update_charts_gap_adjusted and
\* update_charts_stats_adjusted read
adjusted_data(yr, adj) == z_values(get_maturity_data(yr), adj)

\* update_charts with the gap chart computed from the adjusted matrix
update_charts_gap_adjusted(yr, adj, dm) ==
    /\ year' = yr
    /\ governance_adj' = adj
    /\ dark_mode' = dm
    /\ charts_error' = LookupError(get_maturity_data(yr))
    /\ IF LookupError(get_maturity_data(yr)) = "none"
       THEN /\ main_heatmap' = create_heatmap(yr, adj, dm)
            /\ gap_chart' =
                 [ create_gap_analysis_chart(yr, dm) EXCEPT
                     !.gaps = gap_values(adjusted_data(yr, adj)) ]
            /\ quick_stats' = statistics(get_maturity_data(yr))
       ELSE UNCHANGED << main_heatmap, gap_chart, quick_stats >>
    /\ heatmap_tables(yr, adj)
    /\ UNCHANGED << radarVars, levelVars, modalVars, otherVars >>

\* update_charts with the statistics computed from the adjusted matrix
update_charts_stats_adjusted(yr, adj, dm) ==
    /\ year' = yr
    /\ governance_adj' = adj
    /\ dark_mode' = dm
    /\ charts_error' = LookupError(get_maturity_data(yr))
    /\ IF LookupError(get_maturity_data(yr)) = "none"
       THEN /\ main_heatmap' = create_heatmap(yr, adj, dm)
            /\ gap_chart' = create_gap_analysis_chart(yr, dm)
            /\ quick_stats' = statistics(adjusted_data(yr, adj))
       ELSE UNCHANGED << main_heatmap, gap_chart, quick_stats >>
    /\ heatmap_tables(yr, adj)
    /\ UNCHANGED << radarVars, levelVars, modalVars, otherVars >>

\* The module-level dicts after import and the components of app.layout
\* before any callback has run
Layout ==
    /\ MATURITY_DATA_2025 = BASELINE_2025
    /\ MATURITY_DATA_2026 = PROJECTION_2026
    /\ MATURITY_DATA_2027 = PROJECTION_2027
    /\ year = "2025"
    /\ governance_adj = 0
    /\ dark_mode = TRUE
    /\ charts_error = "none"
    /\ main_heatmap = NoFigure
    /\ gap_chart = NoFigure
    /\ quick_stats = NoFigure
    /\ radar_category = "Prompt Injection"
    /\ radar_year = "2025"
    /\ radar_dark_mode = TRUE
    /\ radar_chart = NoFigure
    /\ radar_error = "none"
    /\ CELL_DETAILS = EVIDENCE_RECORDS
    /\ modal_triggered = "none"
    /\ modal_click_data = NoClick
    /\ modal_is_open = FALSE
    /\ modal_error = "none"
    /\ detail_modal_is_open = FALSE
    /\ modal_title = NoChildren
    /\ modal_body = NoChildren
    /\ calls = [ t \in Threads |-> Idle ]

Init ==
    /\ Layout
    /\ NotRun
    /\ level_in = 0
    /\ level_out = "not called"
    /\ gap_in = 0
    /\ color_out = "not called"

update_charts(yr, adj, dm) ==
    /\ year' = yr
    /\ governance_adj' = adj
    /\ dark_mode' = dm
    /\ charts_error' = LookupError(get_maturity_data(yr))
    /\ IF LookupError(get_maturity_data(yr)) = "none"
       THEN /\ main_heatmap' = create_heatmap(yr, adj, dm)
            /\ gap_chart' = create_gap_analysis_chart(yr, dm)
            /\ quick_stats' = statistics(get_maturity_data(yr))
       ELSE UNCHANGED << main_heatmap, gap_chart, quick_stats >>
    /\ heatmap_tables(yr, adj)
    /\ UNCHANGED << radarVars, levelVars, modalVars, otherVars >>

update_radar(category, yr, dm) ==
    /\ radar_category' = category
    /\ radar_year' = yr
    /\ radar_dark_mode' = dm
    /\ radar_chart' = create_radar_chart(category, yr, dm)
    /\ radar_error' = "none"
    /\ UNCHANGED << tables, chartsVars, levelVars, modalVars, otherVars >>

\* Category names a caller may pass: the four known ones and one unknown
CategoryInputs ==
    { THREAT_CATEGORIES[i] : i \in 1..Len(THREAT_CATEGORIES) } \cup { "Jailbreak" }

\* clickData of main-heatmap: None, or the clicked cell (its row y is all
\* that toggle_modal reads)
ClickInputs ==
    { NoClick } \cup
    { [ points |-> << [ x |-> DIMENSIONS[1], y |-> c ] >> ] : c \in CategoryInputs }

\* ctx.triggered_id: the two Inputs of toggle_modal
TriggerInputs == { "main-heatmap", "close-modal" }

\* dark-mode-toggle as update_radar is called with it: the value of the
\* layout.  It selects colours of the radar chart and nothing else.
RadarDarkModeInputs == { TRUE }

\* toggle_modal.  close_clicks, the n_clicks of the close button, is 0 until
\* the button is the trigger; the callback does not read it.
toggle_modal(triggered, click_data) ==
    LET close_clicks == IF triggered = "close-modal" THEN 1 ELSE 0
        result == toggle_modal_result(triggered, click_data, close_clicks,
                                      detail_modal_is_open)
    IN  /\ modal_triggered' = triggered
        /\ modal_click_data' = click_data
        /\ modal_is_open' = detail_modal_is_open
        /\ modal_error' = "none"
        /\ detail_modal_is_open' = result.is_open
        /\ modal_title' = result.title
        /\ modal_body' = result.body
        /\ UNCHANGED << tables, chartsVars, radarVars, levelVars, otherVars >>

Next ==
    \/ \E yr \in YearInputs, adj \in Adjustments, dm \in BOOLEAN :
         update_charts(yr, adj, dm)
    \/ \E category \in CategoryInputs, yr \in YearInputs,
          dm \in RadarDarkModeInputs :
         update_radar(category, yr, dm)
    \/ \E triggered \in TriggerInputs, click_data \in ClickInputs :
         toggle_modal(triggered, click_data)

Spec == Init /\ [][Next]_vars

----------------------------------------------------------------------------
(* get_level_description as a pure function of every score in [0.0, 4.0] *)

\* Scores a caller may pass: 0.0 to 4.0 in steps of 1/120
LevelInputs == 0 .. Score(40)

LevelInit ==
    /\ Layout
    /\ NotRun
    /\ level_in \in LevelInputs
    /\ level_out = "not called"
    /\ gap_in = 0
    /\ color_out = "not called"

describe_level ==
    /\ level_out = "not called"
    /\ level_out' = get_level_description(level_in)
    /\ UNCHANGED << tables, chartsVars, radarVars, level_in, modalVars,
                    otherVars >>

LevelNext == describe_level

LevelSpec == LevelInit /\ [][LevelNext]_vars

----------------------------------------------------------------------------
(* The severity colour as a pure function of every gap in [0.0, 4.0] *)

\* Gaps the expression may be handed: 0.0 to 4.0 in steps of 1/120
GapInputs == 0 .. Score(40)

ColorInit ==
    /\ Layout
    /\ NotRun
    /\ level_in = 0
    /\ level_out = "not called"
    /\ gap_in \in GapInputs
    /\ color_out = "not called"

color_gap ==
    /\ color_out = "not called"
    /\ color_out' = severity_color(gap_in)
    /\ UNCHANGED << tables, chartsVars, radarVars, levelVars, modalVars,
                    CELL_DETAILS, gap_in, calls, scriptVars >>

ColorNext == color_gap

ColorSpec == ColorInit /\ [][ColorNext]_vars

----------------------------------------------------------------------------
(* Callbacks on several server threads at once.  A thread runs one callback *)
(* at a time; a step is one iteration of the loop of create_heatmap, one    *)
(* chart or the statistics, and the threads' steps interleave freely.  All  *)
(* a thread shares with the others is the module-level dicts.               *)

\* The module-level dicts after one iteration of the loop of create_heatmap
row_tables(yr, category, adj) ==
    /\ MATURITY_DATA_2025' =
         IF yr \notin { "2026", "2027" }
         THEN [ MATURITY_DATA_2025 EXCEPT
                  ![category] = stored_rows(MATURITY_DATA_2025, adj)[category] ]
         ELSE MATURITY_DATA_2025
    /\ MATURITY_DATA_2026' =
         IF yr = "2026"
         THEN [ MATURITY_DATA_2026 EXCEPT
                  ![category] = stored_rows(MATURITY_DATA_2026, adj)[category] ]
         ELSE MATURITY_DATA_2026
    /\ MATURITY_DATA_2027' =
         IF yr = "2027"
         THEN [ MATURITY_DATA_2027 EXCEPT
                  ![category] = stored_rows(MATURITY_DATA_2027, adj)[category] ]
         ELSE MATURITY_DATA_2027

\* create_heatmap after its loop: the figure of the rows collected in
\* z_values, one per category in the order of THREAT_CATEGORIES
heatmap_of_rows(rows, yr, dm) ==
    LET z == [ c \in { THREAT_CATEGORIES[k] : k \in 1..Len(rows) } |->
                 rows[CHOOSE k \in 1..Len(rows) : THREAT_CATEGORIES[k] = c] ]
    IN  [ z          |-> z,
          level_desc |-> [ c \in DOMAIN z |->
                             [ i \in 1..Len(DIMENSIONS) |->
                                 get_level_description(z[c][i]) ] ],
          text       |-> [ c \in DOMAIN z |->
                             [ i \in 1..Len(DIMENSIONS) |->
                                 format_1f(z[c][i]) ] ],
          year_label |-> IF yr = "2025" THEN << yr, "Baseline" >>
                                        ELSE << yr, "Projection" >>,
          bg_color   |-> IF dm THEN "#1a1a2e" ELSE "#ffffff" ]

\* A request for update_charts reaches thread t
begin_update_charts(t, yr, adj, dm) ==
    /\ calls[t].pc = "idle"
    /\ calls' = [ calls EXCEPT ![t] =
                    [ pc |-> "heatmap_loop", callback |-> "update_charts",
                      yr |-> yr, adj |-> adj, dm |-> dm,
                      z_values |-> << >> ] ]
    /\ UNCHANGED << tables, chartsVars, radarVars, levelVars, modalVars,
                    CELL_DETAILS, colorVars, scriptVars >>

\* create_heatmap, one iteration of `for category in THREAT_CATEGORIES`
heatmap_row(t) ==
    /\ calls[t].pc = "heatmap_loop"
    /\ LET call     == calls[t]
           category == THREAT_CATEGORIES[Len(call.z_values) + 1]
           data     == get_maturity_data(call.yr)
           rows     == Append(call.z_values, adjust_row(data[category], call.adj))
       IN  /\ row_tables(call.yr, category, call.adj)
           /\ calls' = [ calls EXCEPT ![t] =
                IF Len(rows) < Len(THREAT_CATEGORIES)
                THEN [ call EXCEPT !.z_values = rows ]
                ELSE [ pc |-> "gap_chart", callback |-> "update_charts",
                       yr |-> call.yr, adj |-> call.adj, dm |-> call.dm,
                       heatmap |-> heatmap_of_rows(rows, call.yr, call.dm) ] ]
    /\ UNCHANGED << chartsVars, radarVars, levelVars, modalVars,
                    CELL_DETAILS, colorVars, scriptVars >>

\* update_charts, "Gap chart"
gap_chart_step(t) ==
    /\ calls[t].pc = "gap_chart"
    /\ LET call == calls[t]
       IN  calls' = [ calls EXCEPT ![t] =
                [ pc |-> "statistics", callback |-> "update_charts",
                  yr |-> call.yr, adj |-> call.adj, dm |-> call.dm,
                  heatmap |-> call.heatmap,
                  gap_chart |-> create_gap_analysis_chart(call.yr, call.dm) ] ]
    /\ UNCHANGED << tables, chartsVars, radarVars, levelVars, modalVars,
                    CELL_DETAILS, colorVars, scriptVars >>

\* update_charts, "Calculate statistics" and the return
statistics_step(t) ==
    /\ calls[t].pc = "statistics"
    /\ LET call == calls[t]
       IN  calls' = [ calls EXCEPT ![t] =
                [ pc |-> "done", callback |-> "update_charts",
                  yr |-> call.yr, adj |-> call.adj, dm |-> call.dm,
                  heatmap |-> call.heatmap,
                  gap_chart |-> call.gap_chart,
                  stats |-> statistics(get_maturity_data(call.yr)) ] ]
    /\ UNCHANGED << tables, chartsVars, radarVars, levelVars, modalVars,
                    CELL_DETAILS, colorVars, scriptVars >>

\* A request for update_radar reaches thread t
begin_update_radar(t, category, yr, dm) ==
    /\ calls[t].pc = "idle"
    /\ calls' = [ calls EXCEPT ![t] =
                    [ pc |-> "radar", callback |-> "update_radar",
                      category |-> category, yr |-> yr, dm |-> dm ] ]
    /\ UNCHANGED << tables, chartsVars, radarVars, levelVars, modalVars,
                    CELL_DETAILS, colorVars, scriptVars >>

\* update_radar: create_radar_chart and the return
radar_step(t) ==
    /\ calls[t].pc = "radar"
    /\ LET call == calls[t]
       IN  calls' = [ calls EXCEPT ![t] =
                [ pc |-> "done", callback |-> "update_radar",
                  category |-> call.category, yr |-> call.yr, dm |-> call.dm,
                  radar |-> create_radar_chart(call.category, call.yr, call.dm) ] ]
    /\ UNCHANGED << tables, chartsVars, radarVars, levelVars, modalVars,
                    CELL_DETAILS, colorVars, scriptVars >>

\* The response has been sent; the thread takes the next request
respond(t) ==
    /\ calls[t].pc = "done"
    /\ calls' = [ calls EXCEPT ![t] = Idle ]
    /\ UNCHANGED << tables, chartsVars, radarVars, levelVars, modalVars,
                    CELL_DETAILS, colorVars, scriptVars >>

ConcNext ==
    \E t \in Threads :
        \/ \E yr \in YearInputs, adj \in Adjustments, dm \in BOOLEAN :
             begin_update_charts(t, yr, adj, dm)
        \/ heatmap_row(t)
        \/ gap_chart_step(t)
        \/ statistics_step(t)
        \/ \E category \in CategoryInputs, yr \in YearInputs,
              dm \in RadarDarkModeInputs :
             begin_update_radar(t, category, yr, dm)
        \/ radar_step(t)
        \/ respond(t)

ConcSpec == Init /\ [][ConcNext]_vars

----------------------------------------------------------------------------
(* check_compatibility.main, run once in each environment.  A step is one  *)
(* iteration of its for loop, or the summary.                              *)

dashboardVars == << tables, chartsVars, radarVars, levelVars, modalVars,
                    CELL_DETAILS, colorVars, calls >>

MainInit ==
    /\ Layout
    /\ level_in = 0
    /\ level_out = "not called"
    /\ gap_in = 0
    /\ color_out = "not called"
    /\ env \in Environments
    /\ main_pc = "loop"
    /\ MainStarts

\* One iteration of "for name, check_func in checks"
run_check ==
    /\ main_pc = "loop"
    /\ Len(called) < Len(checks)
    /\ LET name == checks[Len(called) + 1]
           step == guarded_call(name, check_func(name, env))
       IN  /\ called' = Append(called, name)
           /\ results' = results \o step.results
           /\ errors' = errors \o step.errors
           /\ main_pc' = step.pc
    /\ UNCHANGED << dashboardVars, env, passed, total, main_return >>

\* The summary of main and its return
summary ==
    /\ main_pc = "loop"
    /\ Len(called) = Len(checks)
    /\ passed' = count_passed(results)
    /\ total' = Len(results)
    /\ main_return' = << exit_status(count_passed(results), Len(results)) >>
    /\ main_pc' = "done"
    /\ UNCHANGED << dashboardVars, env, called, results, errors >>

MainNext == run_check \/ summary

\* The interpreter keeps executing main: a step that can be taken is taken
MainSpec == MainInit /\ [][MainNext]_vars /\ WF_vars(MainNext)

----------------------------------------------------------------------------
(* PROPERTIES *)

Categories == { THREAT_CATEGORIES[i] : i \in 1..Len(THREAT_CATEGORIES) }

\* The table the specification assigns to a supported year
BaseMatrix(yr) ==
    CASE yr = "2025" -> BASELINE_2025
      [] yr = "2026" -> PROJECTION_2026
      [] yr = "2027" -> PROJECTION_2027

\* update_charts has returned at least once
ChartsRendered ==
    /\ main_heatmap # NoFigure
    /\ gap_chart # NoFigure
    /\ quick_stats # NoFigure

\* C1 (as stated): a call with a year outside the supported set fails with
\* the unsupported-year error and returns no matrix.
C1_UnsupportedYearFails ==
    year \notin SupportedYears => charts_error = "UnknownYear"

\* C1 (amended): a call with a year outside the supported set does not fail;
\* it returns the heatmap of the 2025 baseline table (with the governance
\* adjustment applied), titled with the requested year.
C1_UnsupportedYearFallsBackTo2025 ==
    year \notin SupportedYears =>
        /\ charts_error = "none"
        /\ ChartsRendered
        /\ main_heatmap.z = z_values(BASELINE_2025, governance_adj)
        /\ main_heatmap.year_label = << year, "Projection" >>

C1_Witness ==
    /\ year = "2099"
    /\ governance_adj = 0
    /\ ChartsRendered
    /\ main_heatmap.z = BASELINE_2025

\* C2: for every supported year and category, the matrix built with
\* governance_adjustment = 0 equals the base matrix of that year in all four
\* dimensions.
C2_ZeroAdjustmentIsIdentity ==
    (ChartsRendered /\ year \in SupportedYears /\ governance_adj = 0) =>
        \A c \in Categories : \A i \in 1..Len(DIMENSIONS) :
            main_heatmap.z[c][i] = BaseMatrix(year)[c][i]

C2_Witness ==
    /\ ChartsRendered
    /\ year = "2026"
    /\ governance_adj = 0
    /\ main_heatmap.z["Privacy"] = << Score(40), Score(25), Score(25), Score(25) >>

\* C3: for every supported year, adjustment 0..4, category and dimension, the
\* score of the adjusted matrix lies in [0.0, 4.0].
C3_ScoresWithinScale ==
    (ChartsRendered /\ year \in SupportedYears) =>
        \A c \in Categories : \A i \in 1..Len(DIMENSIONS) :
            /\ main_heatmap.z[c][i] >= Score(0)
            /\ main_heatmap.z[c][i] <= Score(40)

\* The ceiling has acted: 3.0 + 4 * 0.5 is shown as 4.0
C3_Witness ==
    /\ ChartsRendered
    /\ year = "2027"
    /\ governance_adj = SLIDER_MAX
    /\ BaseMatrix(year)["Privacy"][3] + governance_adj * Score(5) > Score(40)
    /\ main_heatmap.z["Privacy"][3] = Score(40)

\* C4: for every supported year and category, the adjusted Governance
\* Enforcement and Stakeholder Protections scores do not decrease when the
\* adjustment level grows: a call with adjustment b after a call with
\* adjustment a <= b for the same year shows scores at least as high.
C4_MonotoneInAdjustment ==
    [][ ( /\ ChartsRendered
          /\ ChartsRendered'
          /\ year \in SupportedYears
          /\ year' = year
          /\ governance_adj <= governance_adj' ) =>
        \A c \in Categories :
            /\ main_heatmap.z[c][3] <= main_heatmap'.z[c][3]
            /\ main_heatmap.z[c][4] <= main_heatmap'.z[c][4] ]_vars

\* An adjusted call whose governance and stakeholder scores lie strictly
\* above those of the adjustment-0 matrix
C4_Witness ==
    /\ ChartsRendered
    /\ year \in SupportedYears
    /\ governance_adj = 3
    /\ \A c \in Categories :
          /\ main_heatmap.z[c][3] > BaseMatrix(year)[c][3]
          /\ main_heatmap.z[c][4] > BaseMatrix(year)[c][4]

\* C5: for every supported year, category and adjustment a in 0..4, the
\* adjusted Governance Enforcement score is min(4.0, base + a * 0.5) and the
\* adjusted Stakeholder Protections score is min(4.0, base + a * 0.3).
C5_AdjustmentFormula ==
    (ChartsRendered /\ year \in SupportedYears) =>
        \A c \in Categories :
            LET base == BaseMatrix(year)[c]
                gov   == base[3] + governance_adj * Score(5)
                stake == base[4] + governance_adj * Score(3)
            IN  /\ main_heatmap.z[c][3] = IF gov > Score(40) THEN Score(40) ELSE gov
                /\ main_heatmap.z[c][4] = IF stake > Score(40) THEN Score(40) ELSE stake

\* 2026, adjustment 2: Political Integrity 1.5 -> 2.5 and 1.0 -> 1.6
C5_Witness ==
    /\ ChartsRendered
    /\ year = "2026"
    /\ governance_adj = 2
    /\ main_heatmap.z["Political Integrity"][3] = Score(25)
    /\ main_heatmap.z["Political Integrity"][4] = Score(16)

\* C6: for every supported year, category and adjustment 0..4, the Threat
\* Maturity and Technical Controls scores of the adjusted matrix equal the
\* base scores.
C6_OtherDimensionsUnchanged ==
    (ChartsRendered /\ year \in SupportedYears) =>
        \A c \in Categories :
            /\ main_heatmap.z[c][1] = BaseMatrix(year)[c][1]
            /\ main_heatmap.z[c][2] = BaseMatrix(year)[c][2]

\* An adjusted call that changed the matrix
C6_Witness ==
    /\ ChartsRendered
    /\ year \in SupportedYears
    /\ governance_adj > 0
    /\ main_heatmap.z # BaseMatrix(year)
    /\ main_heatmap.z["Prompt Injection"][2] = BaseMatrix(year)["Prompt Injection"][2]

\* The bands of the maturity labels: lowest score of the band, and the first
\* score above it (the last band is closed at 4.0)
Bands ==
    ( "Non-existent"   :> << Score(0),  Score(5) >> ) @@
    ( "Initial/Ad-hoc" :> << Score(5),  Score(15) >> ) @@
    ( "Developing"     :> << Score(15), Score(25) >> ) @@
    ( "Defined"        :> << Score(25), Score(35) >> ) @@
    ( "Managed/Mature" :> << Score(35), Score(40) + 1 >> )

InBand(s, label) == Bands[label][1] <= s /\ s < Bands[label][2]

\* C7: for every score s in [0,4] get_level_description returns exactly one
\* label, the one whose band [0,0.5), [0.5,1.5), [1.5,2.5), [2.5,3.5),
\* [3.5,4.0] contains s; a cut point falls in the upper band.
C7_LevelBands ==
    level_out # "not called" =>
        /\ level_out \in DOMAIN Bands
        /\ InBand(level_in, level_out)
        /\ \A label \in DOMAIN Bands : InBand(level_in, label) => label = level_out

C7_Witness ==
    /\ level_in = Score(25)
    /\ level_out = "Defined"

\* C8: for every category and supported year the protection gap is the
\* threat score minus the mean of the other three scores of the base matrix;
\* for Political Integrity in 2025 it is 4.0 - 2/3 = 10/3.
C8_ProtectionGap ==
    (ChartsRendered /\ year \in SupportedYears) =>
        /\ \A c \in Categories :
              LET base == BaseMatrix(year)[c]
              IN  3 * gap_chart.gaps[c] = 3 * base[1] - (base[2] + base[3] + base[4])
        /\ year = "2025" => 3 * gap_chart.gaps["Political Integrity"] = Score(100)

C8_Witness ==
    /\ ChartsRendered
    /\ year = "2025"
    /\ 3 * gap_chart.gaps["Political Integrity"] = Score(100)

\* C9: the protection gaps do not depend on the governance adjustment: two
\* calls for the same year show the same gaps whatever their adjustment
\* levels, the gaps of the base matrix.
C9_GapsIgnoreAdjustment ==
    [][ (ChartsRendered /\ ChartsRendered' /\ year' = year) =>
            /\ gap_chart'.gaps = gap_chart.gaps
            /\ year \in SupportedYears =>
                  \A c \in Categories :
                      LET base == BaseMatrix(year)[c]
                      IN  3 * gap_chart'.gaps[c] =
                              3 * base[1] - (base[2] + base[3] + base[4]) ]_vars

\* The slider has changed the heatmap while the gaps are those of the base
C9_Witness ==
    /\ ChartsRendered
    /\ year = "2026"
    /\ governance_adj = SLIDER_MAX
    /\ main_heatmap.z # BaseMatrix(year)
    /\ gap_chart.gaps["Privacy"] = Score(15)

\* Column sums of a table, over the four categories
ColumnSum(m, i) == SumSeq([ k \in 1..Len(THREAT_CATEGORIES) |-> m[THREAT_CATEGORIES[k]][i] ])

\* The adjusted matrix of C5 for (yr, a)
ExpectedAdjusted(yr, a) ==
    [ c \in Categories |->
        LET base == BaseMatrix(yr)[c]
            gov   == base[3] + a * Score(5)
            stake == base[4] + a * Score(3)
        IN  << base[1], base[2],
               IF gov > Score(40) THEN Score(40) ELSE gov,
               IF stake > Score(40) THEN Score(40) ELSE stake >> ]

\* The summary statistics are the column means of matrix m
StatsAreMeansOf(m) ==
    /\ 4 * quick_stats.avg_threat = ColumnSum(m, 1)
    /\ 4 * quick_stats.avg_tech = ColumnSum(m, 2)
    /\ 4 * quick_stats.avg_gov = ColumnSum(m, 3)
    /\ 4 * quick_stats.avg_stake = ColumnSum(m, 4)
    /\ 4 * quick_stats.overall_gap = ColumnSum(m, 1) - ColumnSum(m, 4)

\* C10 (as stated): the summary statistics of update_charts(year,
\* governance_adj, ...) are the column means of the adjusted matrix for
\* (year, governance_adj), and overallGap = avgThreat - avgStakeholder of it.
C10_StatsOfAdjustedMatrix ==
    (ChartsRendered /\ year \in SupportedYears) =>
        StatsAreMeansOf(ExpectedAdjusted(year, governance_adj))

\* C10 (amended): the summary statistics of update_charts(year,
\* governance_adj, ...) are the column means of the base matrix of the year,
\* whatever the adjustment, and overallGap = avgThreat - avgStakeholder of
\* the base matrix.
C10_StatsOfBaseMatrix ==
    (ChartsRendered /\ year \in SupportedYears) =>
        StatsAreMeansOf(BaseMatrix(year))

\* 2025 with the slider at 2: the heatmap is adjusted, the means are 4.0,
\* 1.875, 1.625, 0.875 and the overall gap 3.125
C10_Witness ==
    /\ ChartsRendered
    /\ year = "2025"
    /\ governance_adj = 2
    /\ main_heatmap.z # BaseMatrix(year)
    /\ 8 * quick_stats.avg_gov = Score(130)
    /\ 8 * quick_stats.overall_gap = Score(250)

\* C11: for every supported year, overallGap is the mean Threat Maturity
\* minus the mean Stakeholder Protections over the four categories of the
\* base matrix; for 2025: avgThreat = 4.0, avgStakeholder = 0.875,
\* overallGap = 3.125.
C11_OverallGap ==
    (ChartsRendered /\ year \in SupportedYears) =>
        LET base == BaseMatrix(year)
            threat == base["Prompt Injection"][1] + base["Autonomy Harms"][1]
                        + base["Political Integrity"][1] + base["Privacy"][1]
            stake  == base["Prompt Injection"][4] + base["Autonomy Harms"][4]
                        + base["Political Integrity"][4] + base["Privacy"][4]
        IN  /\ 4 * quick_stats.overall_gap = threat - stake
            /\ year = "2025" =>
                  /\ quick_stats.avg_threat = Score(40)
                  /\ 8 * quick_stats.avg_stake = Score(70)
                  /\ 8 * quick_stats.overall_gap = Score(250)

C11_Witness ==
    /\ ChartsRendered
    /\ year = "2025"
    /\ quick_stats.avg_threat = Score(40)
    /\ 8 * quick_stats.avg_stake = Score(70)

\* The four severity buckets: the gaps of a bucket lie above its first bound
\* and not above its second
SeverityBuckets ==
    ( "#d73027" :> << Score(25), Score(40) >> ) @@
    ( "#fc8d59" :> << Score(20), Score(25) >> ) @@
    ( "#fee08b" :> << Score(15), Score(20) >> ) @@
    ( "#d9ef8b" :> << -1, Score(15) >> )

\* C12: the colour is the first match of gap > 2.5, gap > 2.0, gap > 1.5,
\* else; each threshold is an exclusive lower bound, so a gap of exactly 2.5,
\* 2.0 or 1.5 falls in the next lower bucket; 3.333 gets the highest bucket,
\* 1.6 the (1.5, 2.0] bucket and 1.0 the lowest.
C12_SeverityColor ==
    color_out # "not called" =>
        /\ color_out \in DOMAIN SeverityBuckets
        /\ SeverityBuckets[color_out][1] < gap_in
        /\ gap_in <= SeverityBuckets[color_out][2]
        /\ 3 * gap_in = Score(100) => color_out = "#d73027"
        /\ gap_in = Score(16) => color_out = "#fee08b"
        /\ gap_in = Score(10) => color_out = "#d9ef8b"

\* A gap of exactly 2.5 is not in the highest bucket
C12_Witness ==
    /\ gap_in = Score(25)
    /\ color_out = "#fc8d59"

\* update_radar has returned at least once
RadarRendered == radar_chart # NoFigure

\* toggle_modal has been called for a click on a row outside CELL_DETAILS
UnknownRowClicked ==
    /\ modal_triggered = "main-heatmap"
    /\ modal_click_data # NoClick
    /\ modal_click_data.points[1].y \notin Categories

\* C13 (as stated): a category name outside the fixed set passed to
\* create_radar_chart or clicked for toggle_modal fails with an explicit
\* error propagated to the caller.
C13_UnknownCategoryFails ==
    /\ radar_category \notin Categories => radar_error # "none"
    /\ UnknownRowClicked => modal_error # "none"

\* C13 (amended): a category name outside the fixed set raises no error:
\* create_radar_chart returns an empty figure and toggle_modal returns
\* (False, "", ""), the modal closed with empty title and body.
C13_UnknownCategoryIsSilent ==
    /\ radar_category \notin Categories =>
          /\ radar_error = "none"
          /\ RadarRendered
          /\ radar_chart.r = << >>
          /\ radar_chart.theta = << >>
    /\ UnknownRowClicked =>
          /\ modal_error = "none"
          /\ detail_modal_is_open = FALSE
          /\ modal_title = NoChildren
          /\ modal_body = NoChildren

C13_Witness ==
    /\ radar_category = "Jailbreak"
    /\ radar_chart.r = << >>
    /\ UnknownRowClicked
    /\ detail_modal_is_open = FALSE

\* C14: after any sequence of update_charts, update_radar and toggle_modal
\* calls the tables MATURITY_DATA_2025/2026/2027 and CELL_DETAILS hold their
\* initial values.
C14_TablesNeverMutated ==
    /\ MATURITY_DATA_2025 = BASELINE_2025
    /\ MATURITY_DATA_2026 = PROJECTION_2026
    /\ MATURITY_DATA_2027 = PROJECTION_2027
    /\ CELL_DETAILS = EVIDENCE_RECORDS

\* All three callbacks have run, the heatmap with an adjustment that changed
\* the displayed matrix
C14_Witness ==
    /\ ChartsRendered
    /\ year = "2025"
    /\ governance_adj = SLIDER_MAX
    /\ main_heatmap.z # BASELINE_2025
    /\ RadarRendered
    /\ radar_chart.r # << >>
    /\ detail_modal_is_open
    /\ MATURITY_DATA_2025 = BASELINE_2025

\* The table a call for year yr reads when no call has any effect on the
\* tables
RefMatrix(yr) ==
    IF yr = "2026" THEN PROJECTION_2026
    ELSE IF yr = "2027" THEN PROJECTION_2027
    ELSE BASELINE_2025

RefCap(v) == IF v > Score(40) THEN Score(40) ELSE v

RefAdjusted(yr, a) ==
    [ c \in Categories |->
        LET base == RefMatrix(yr)[c]
        IN  << base[1], base[2],
               RefCap(base[3] + a * Score(5)), RefCap(base[4] + a * Score(3)) >> ]

RefLabel(v) == CHOOSE label \in DOMAIN Bands : InBand(v, label)

RefGap(row) == (3 * row[1] - (row[2] + row[3] + row[4])) \div 3

RefColor(g) ==
    CHOOSE color \in DOMAIN SeverityBuckets :
        SeverityBuckets[color][1] < g /\ g <= SeverityBuckets[color][2]

\* The outputs of update_charts as a function of its three arguments alone
RefCharts(yr, a, dm) ==
    LET z == RefAdjusted(yr, a)
        m == RefMatrix(yr)
        bg == IF dm THEN "#1a1a2e" ELSE "#ffffff"
    IN  [ heatmap |->
            [ z          |-> z,
              level_desc |-> [ c \in Categories |->
                                 [ i \in 1..4 |-> RefLabel(z[c][i]) ] ],
              text       |-> [ c \in Categories |->
                                 [ i \in 1..4 |-> z[c][i] \div Score(1) ] ],
              year_label |-> << yr, IF yr = "2025" THEN "Baseline"
                                                   ELSE "Projection" >>,
              bg_color   |-> bg ],
          gaps |->
            [ gaps     |-> [ c \in Categories |-> RefGap(m[c]) ],
              colors   |-> [ c \in Categories |-> RefColor(RefGap(m[c])) ],
              bg_color |-> bg ],
          stats |->
            [ avg_threat  |-> ColumnSum(m, 1) \div 4,
              avg_tech    |-> ColumnSum(m, 2) \div 4,
              avg_gov     |-> ColumnSum(m, 3) \div 4,
              avg_stake   |-> ColumnSum(m, 4) \div 4,
              overall_gap |-> (ColumnSum(m, 1) - ColumnSum(m, 4)) \div 4 ] ]

\* C15: update_charts is a function of its explicit arguments: whatever
\* calls were made before, the adjusted matrix, labels, gaps and statistics
\* it returns for (year, adjustment, dark_mode) are the same.
C15_ChartsDependOnArgumentsOnly ==
    ChartsRendered =>
        /\ main_heatmap = RefCharts(year, governance_adj, dark_mode).heatmap
        /\ gap_chart = RefCharts(year, governance_adj, dark_mode).gaps
        /\ quick_stats = RefCharts(year, governance_adj, dark_mode).stats

\* An un-adjusted 2025 heatmap shown after the other callbacks have run and
\* left their results
C15_Witness ==
    /\ ChartsRendered
    /\ year = "2025"
    /\ governance_adj = 0
    /\ main_heatmap.z = BASELINE_2025
    /\ RadarRendered
    /\ radar_year = "2027"
    /\ modal_triggered = "close-modal"

\* C17: each of MATURITY_DATA_2025/2026/2027 has exactly the four keys of
\* THREAT_CATEGORIES, and each row one score per entry of DIMENSIONS.
C17_SameShapeEveryYear ==
    \A table \in { MATURITY_DATA_2025, MATURITY_DATA_2026, MATURITY_DATA_2027 } :
        /\ DOMAIN table = { THREAT_CATEGORIES[k] : k \in 1..4 }
        /\ \A c \in DOMAIN table : DOMAIN table[c] = 1..Len(DIMENSIONS)
        /\ Len(DIMENSIONS) = 4

\* The heatmap of the last year has been built, one row per category and one
\* cell per dimension
C17_Witness ==
    /\ ChartsRendered
    /\ year = "2027"
    /\ DOMAIN main_heatmap.z = DOMAIN MATURITY_DATA_2027
    /\ Cardinality(DOMAIN MATURITY_DATA_2027) = 4
    /\ \A c \in DOMAIN main_heatmap.z : Len(main_heatmap.z[c]) = 4

\* C18: the label and the displayed value of every heatmap cell come from
\* the adjusted score: for every year, adjustment, category and dimension the
\* label is the band of the adjusted score and the text its tenths.
C18_LabelsFollowAdjustedScore ==
    ChartsRendered =>
        \A c \in Categories : \A i \in 1..Len(DIMENSIONS) :
            /\ InBand(main_heatmap.z[c][i], main_heatmap.level_desc[c][i])
            /\ main_heatmap.text[c][i] * Score(1) = main_heatmap.z[c][i]

\* 2025 with the slider at 2: Prompt Injection governance 2.0 is shown as
\* 3.0 "Defined", no longer "Developing"
C18_Witness ==
    /\ ChartsRendered
    /\ year = "2025"
    /\ governance_adj = 2
    /\ InBand(MATURITY_DATA_2025["Prompt Injection"][3], "Developing")
    /\ main_heatmap.level_desc["Prompt Injection"][3] = "Defined"
    /\ main_heatmap.text["Prompt Injection"][3] = 30

\* C19: the radar chart for (category, year) plots the base row of the year
\* as a closed polygon of five points whose last point repeats the first
\* (Threat Maturity); it is the same whatever the governance adjustment of
\* the heatmap.
C19_RadarPlotsBaseRow ==
    (RadarRendered /\ radar_category \in Categories
                   /\ radar_year \in SupportedYears) =>
        LET base == BaseMatrix(radar_year)[radar_category]
        IN  /\ Len(radar_chart.r) = 5
            /\ \A i \in 1..4 : radar_chart.r[i] = base[i]
            /\ radar_chart.r[5] = base[1]
            /\ radar_chart.theta[5] = "Threat Maturity"
            /\ radar_chart.name = radar_category

\* The radar of a row whose heatmap cells are adjusted at the same time
C19_Witness ==
    /\ RadarRendered
    /\ radar_category = "Political Integrity"
    /\ radar_year = "2026"
    /\ radar_chart.r = << Score(40), Score(20), Score(15), Score(10), Score(40) >>
    /\ ChartsRendered
    /\ year = "2026"
    /\ governance_adj = 3
    /\ main_heatmap.z["Political Integrity"][3] = Score(30)

\* toggle_modal has been called
ModalCalled == modal_triggered # "none"

\* The clicked row is a key of CELL_DETAILS
KnownRowClicked ==
    /\ modal_click_data # NoClick
    /\ modal_click_data.points[1].y \in DOMAIN EVIDENCE_RECORDS

\* C20: toggle_modal returns is_open = True iff the trigger is not the close
\* button, click data is present and the clicked row is a key of
\* CELL_DETAILS; then the title carries the category and the body is built
\* from its record; otherwise it returns (False, "", "").
C20_ModalOpensOnKnownRow ==
    ModalCalled =>
        /\ detail_modal_is_open =
              (modal_triggered # "close-modal" /\ KnownRowClicked)
        /\ detail_modal_is_open =>
              LET category == modal_click_data.points[1].y
                  record   == EVIDENCE_RECORDS[category]
              IN  /\ modal_title.span = category
                  /\ modal_body.description = record.description
                  /\ modal_body.thesis_quote = record.thesis_quote
                  /\ modal_body.incidents = record.incidents
                  /\ \A i \in 1..Len(DIMENSIONS) :
                        LET card == modal_body.cards[i]
                            cell == record.dimensions[DIMENSIONS[i]]
                        IN  /\ card.dimension = DIMENSIONS[i]
                            /\ card.description = cell.description
                            /\ card.evidence = cell.evidence
                            /\ card.references = cell.references
                            /\ card.badge * Score(1) = cell.level
        /\ ~detail_modal_is_open =>
              /\ modal_title = NoChildren
              /\ modal_body = NoChildren

\* The close button pressed while the click on a known row is still the
\* clickData of the heatmap
C20_Witness ==
    /\ modal_triggered = "close-modal"
    /\ KnownRowClicked
    /\ detail_modal_is_open = FALSE
    /\ modal_title = NoChildren

\* The figure of update_radar as a function of its three arguments alone
RefRadar(category, yr, dm) ==
    IF category \notin Categories
    THEN [ r |-> << >>, theta |-> << >>, name |-> "", bg_color |-> "" ]
    ELSE LET row == RefMatrix(yr)[category]
         IN  [ r        |-> << row[1], row[2], row[3], row[4], row[1] >>,
               theta    |-> << "Threat Maturity", "Technical Controls",
                               "Governance Enforcement",
                               "Stakeholder Protections", "Threat Maturity" >>,
               name     |-> category,
               bg_color |-> IF dm THEN "#1a1a2e" ELSE "#ffffff" ]

\* C16: for any interleaving of the steps of simultaneous update_charts and
\* update_radar calls with different arguments, each call returns what it
\* returns when it runs alone.
C16_ConcurrentCallsAsAlone ==
    \A t \in Threads :
        calls[t].pc = "done" =>
            IF calls[t].callback = "update_charts"
            THEN LET alone == RefCharts(calls[t].yr, calls[t].adj, calls[t].dm)
                 IN  /\ calls[t].heatmap = alone.heatmap
                     /\ calls[t].gap_chart = alone.gaps
                     /\ calls[t].stats = alone.stats
            ELSE calls[t].radar =
                     RefRadar(calls[t].category, calls[t].yr, calls[t].dm)

\* A call for the un-adjusted 2025 heatmap returns while a call for the same
\* year with the slider at its maximum is in the middle of its loop
C16_Witness ==
    /\ calls[1].pc = "done"
    /\ calls[1].callback = "update_charts"
    /\ calls[1].yr = "2025"
    /\ calls[1].adj = 0
    /\ calls[1].heatmap.z = BASELINE_2025
    /\ calls[2].pc = "heatmap_loop"
    /\ calls[2].yr = "2025"
    /\ calls[2].adj = SLIDER_MAX
    /\ Len(calls[2].z_values) = 2

\* C21: the result of toggle_modal does not depend on the is_open state it
\* is called with: whatever the modal was before, a close event leaves it
\* closed and a click on a known category leaves it open, and the title and
\* body are those of the last event.
C21_ModalStateFromLastEventOnly ==
    ModalCalled =>
        /\ modal_triggered = "close-modal" => ~detail_modal_is_open
        /\ (modal_triggered = "main-heatmap" /\ KnownRowClicked) =>
              /\ detail_modal_is_open
              /\ modal_title.span = modal_click_data.points[1].y
        /\ \A before \in BOOLEAN :
              << detail_modal_is_open, modal_title, modal_body >> =
                 LET result == toggle_modal_result(modal_triggered,
                                   modal_click_data, 0, before)
                 IN  << result.is_open, result.title, result.body >>

\* A click on a known category while the modal was already open
C21_Witness ==
    /\ modal_triggered = "main-heatmap"
    /\ KnownRowClicked
    /\ modal_is_open = TRUE
    /\ detail_modal_is_open = TRUE

\* The level stored in the evidence record of (category, dimension i)
RecordLevel(c, i) == CELL_DETAILS[c]["dimensions"][DIMENSIONS[i]]["level"]

\* C22: for every category and every dimension, the level stored in
\* CELL_DETAILS[category]["dimensions"][dimension] equals the 2025 base score
\* MATURITY_DATA_2025[category][index of dimension].
C22_RecordLevelsAre2025Scores ==
    /\ DOMAIN CELL_DETAILS = DOMAIN MATURITY_DATA_2025
    /\ \A c \in DOMAIN CELL_DETAILS :
          /\ DOMAIN CELL_DETAILS[c]["dimensions"] =
                { DIMENSIONS[i] : i \in 1..Len(DIMENSIONS) }
          /\ \A i \in 1..Len(DIMENSIONS) :
                RecordLevel(c, i) = MATURITY_DATA_2025[c][i]

\* The 2025 heatmap drawn with the largest adjustment, so that its cells
\* differ from the base scores, and the modal open on a record
C22_Witness ==
    /\ ChartsRendered
    /\ year = "2025"
    /\ governance_adj = SLIDER_MAX
    /\ main_heatmap.z # MATURITY_DATA_2025
    /\ detail_modal_is_open
    /\ modal_body.cards[2].badge * Score(1) =
          MATURITY_DATA_2025[modal_click_data.points[1].y][2]

\* The badge colour of a dimension card for a level
RefCardColor(level) ==
    IF level < Score(10) THEN "danger"
    ELSE IF level < Score(20) THEN "warning"
    ELSE IF level < Score(30) THEN "info"
    ELSE "success"

\* C23: the levels shown in the detail modal are independent of the
\* selected year and of the governance adjustment: for the clicked category
\* the dimension cards carry the static evidence-record levels, whatever
\* year (2025, 2026, 2027) and adjustment (0..4) the heatmap displays.
C23_ModalLevelsIgnoreYearAndAdjustment ==
    detail_modal_is_open =>
        LET category == modal_click_data.points[1].y
        IN  \A i \in 1..Len(DIMENSIONS) :
              /\ modal_body.cards[i].badge * Score(1) = CELL_LEVELS[category][i]
              /\ modal_body.cards[i].color = RefCardColor(CELL_LEVELS[category][i])

\* The modal opened on a row of the 2027 heatmap drawn with the largest
\* adjustment: the clicked cells show other scores than the cards
C23_Witness ==
    /\ ChartsRendered
    /\ year = "2027"
    /\ governance_adj = SLIDER_MAX
    /\ detail_modal_is_open
    /\ modal_triggered = "main-heatmap"
    /\ LET category == modal_click_data.points[1].y
       IN  /\ main_heatmap.z[category][3] # CELL_LEVELS[category][3]
           /\ modal_body.cards[3].badge * Score(1) = CELL_LEVELS[category][3]

\* main has returned
MainReturned == main_pc = "done"

\* C24: main returns exit code 0 if and only if all six checks returned a
\* true result, and 1 otherwise; the reported score passed/total has total
\* = 6 and passed = the number of checks that returned true.
C24_ExitCodeAndScore ==
    MainReturned =>
        LET returned_true ==
              { i \in 1..Len(checks) : check_func(checks[i], env) = "True" }
        IN  /\ total = 6
            /\ passed = Cardinality(returned_true)
            /\ main_return \in { << 0 >>, << 1 >> }
            /\ main_return = << 0 >> <=> Cardinality(returned_true) = 6

\* main returned 1 with five of the six checks passed
C24_Witness ==
    /\ MainReturned
    /\ passed = 5
    /\ total = 6
    /\ main_return = << 1 >>

\* The checks that raise in the environment
RaisingChecks ==
    { i \in 1..Len(checks) : check_func(checks[i], env) = "Exception" }

\* main has called the first n checks, each once and in the order of the
\* list, and has recorded one result for each: the returned value, or False
\* for a check that raised
CalledInOrder ==
    /\ Len(called) <= Len(checks)
    /\ called = SubSeq(checks, 1, Len(called))
    /\ Len(results) = Len(called)
    /\ \A i \in 1..Len(results) :
          /\ results[i][1] = checks[i]
          /\ results[i][2] = (check_func(checks[i], env) = "True")
          /\ i \in RaisingChecks => results[i][2] = FALSE
    /\ Len(errors) = Cardinality({ i \in RaisingChecks : i <= Len(called) })

\* C25: main runs each of the six checks exactly once, in the fixed order
\* Python Version, Requirements File, Package Compatibility, Import Tests,
\* Deployment Files, Dependency Tree, whatever the earlier checks returned;
\* a check that raises an exception is recorded as failed and the remaining
\* checks still run, so main always reaches the summary and terminates.
C25_AllChecksRunThenSummary ==
    /\ [](/\ main_pc \in { "loop", "done" }
          /\ CalledInOrder
          /\ MainReturned => called = checks)
    /\ <>MainReturned

\* main returned after the first check returned False, Import Tests raised
\* and the last check returned True
C25_Witness ==
    /\ MainReturned
    /\ results[1][2] = FALSE
    /\ errors = << "Import Tests" >>
    /\ results[4] = << "Import Tests", FALSE >>
    /\ results[6] = << "Dependency Tree", TRUE >>

\* The version of the running interpreter matches the target of the
\* .python-version file: the file is there and the version begins with the
\* target ("3.11" and "3.11.9" both match Python 3.11.9)
VersionMatchesTarget ==
    /\ ".python-version" \in env.files
    /\ ".python-version" \notin env.unreadable
    /\ Len(strip(env.python_version)) > 0
    /\ startswith(current_str(env.version_info), strip(env.python_version))

\* C26: check_python_version returns True only when the version of the
\* running interpreter matches the target version read from the
\* .python-version file.
C26_TrueOnlyWhenVersionMatches ==
    (Len(results) >= 1 /\ results[1] = << "Python Version", TRUE >>) =>
        VersionMatchesTarget

====
